---- MODULE Spec2Model ----
(***************************************************************************)
(* Model of latex2mathml's AST renderer (src/ast.rs): the Node sum type    *)
(* and its Display implementation, which serialises a tree to MathML.      *)
(*                                                                         *)
(* A string is a sequence of tokens.  Every literal piece of a format      *)
(* string is one token (a piece holding several tags is split into one     *)
(* token per tag), and every character of a payload is one token, so that  *)
(* string concatenation is sequence concatenation.                         *)
(***************************************************************************)
EXTENDS Integers, Sequences, FiniteSets, TLC

\* ------------------------------------------------------------------ bounds
\* Longest Row / Matrix element sequence drawn by Init.
MaxLen == 3
\* Deepest nesting of one-hole contexts drawn around a base node by Init.
MaxDepth == 1

\* --------------------------------------------------------------- the nodes
\* enum Node.  A node is a record: tag (the variant), s and s2 (string or
\* char payloads, as token sequences), v (Variant or Accent), w (the f32 of
\* Space, in tenths), kids (the boxed children, in field order).
MkNode(tag, s, s2, v, w, kids) ==
    [tag |-> tag, s |-> s, s2 |-> s2, v |-> v, w |-> w, kids |-> kids]

Number(number) == MkNode("Number", number, <<>>, "", 0, <<>>)
Letter(letter, var) == MkNode("Letter", <<letter>>, <<>>, var, 0, <<>>)
Operator(op) == MkNode("Operator", <<op>>, <<>>, "", 0, <<>>)
\* Function(&'static str, Option<Box<Node>>): kids is <<>> for None.
Function(fun, arg) == MkNode("Function", fun, <<>>, "", 0, arg)
Space(space) == MkNode("Space", <<>>, <<>>, "", space, <<>>)
Subscript(a, b) == MkNode("Subscript", <<>>, <<>>, "", 0, <<a, b>>)
Superscript(a, b) == MkNode("Superscript", <<>>, <<>>, "", 0, <<a, b>>)
SubSup(target, sub, sup) == MkNode("SubSup", <<>>, <<>>, "", 0, <<target, sub, sup>>)
OverOp(op, acc, target) == MkNode("OverOp", <<op>>, <<>>, acc, 0, <<target>>)
UnderOp(op, acc, target) == MkNode("UnderOp", <<op>>, <<>>, acc, 0, <<target>>)
Overset(over, target) == MkNode("Overset", <<>>, <<>>, "", 0, <<over, target>>)
Underset(under, target) == MkNode("Underset", <<>>, <<>>, "", 0, <<under, target>>)
Under(target, under) == MkNode("Under", <<>>, <<>>, "", 0, <<target, under>>)
UnderOver(target, under, over) == MkNode("UnderOver", <<>>, <<>>, "", 0, <<target, under, over>>)
\* Sqrt(Option<Box<Node>>, Box<Node>): kids is <<content>> or <<degree, content>>.
Sqrt(degree, content) == MkNode("Sqrt", <<>>, <<>>, "", 0, degree \o <<content>>)
Frac(num, denom) == MkNode("Frac", <<>>, <<>>, "", 0, <<num, denom>>)
Row(vec) == MkNode("Row", <<>>, <<>>, "", 0, vec)
Fenced(open, close, content) == MkNode("Fenced", open, close, "", 0, <<content>>)
OtherOperator(op) == MkNode("OtherOperator", op, <<>>, "", 0, <<>>)
Text(text) == MkNode("Text", text, <<>>, "", 0, <<>>)
Matrix(content) == MkNode("Matrix", <<>>, <<>>, "", 0, content)
Ampersand == MkNode("Ampersand", <<>>, <<>>, "", 0, <<>>)
NewLine == MkNode("NewLine", <<>>, <<>>, "", 0, <<>>)
Slashed(node) == MkNode("Slashed", <<>>, <<>>, "", 0, <<node>>)
Undefined(msg) == MkNode("Undefined", msg, <<>>, "", 0, <<>>)

\* ------------------------------------------------- conversions of payloads
\* Display of attribute::Variant (the mathvariant value).
VariantName(var) ==
    CASE var = "Normal" -> "normal"
      [] var = "Italic" -> "italic"
      [] var = "Bold" -> "bold"

\* Display of attribute::Accent (the accent value).
AccentName(acc) ==
    CASE acc = "True" -> "true"
      [] acc = "False" -> "false"

DigitChar(d) == SubSeq(<<"0", "1", "2", "3", "4", "5", "6", "7", "8", "9">>, d + 1, d + 1)

\* Display of a non-negative integer below 100.
IntDisplay(n) == IF n < 10 THEN DigitChar(n) ELSE DigitChar(n \div 10) \o DigitChar(n % 10)

\* Display of the f32 of Space, held in tenths: 10 is "1", 5 is "0.5", -3 is "-0.3".
FloatDisplay(t) ==
    LET a == IF t < 0 THEN -t ELSE t
        sign == IF t < 0 THEN <<"-">> ELSE <<>>
        frac == IF a % 10 = 0 THEN <<>> ELSE <<".">> \o DigitChar(a % 10)
    IN  sign \o IntDisplay(a \div 10) \o frac

\* Debug of a String: quoted, with quotes and backslashes escaped.
RECURSIVE EscapeDebug(_)
EscapeDebug(str) ==
    IF str = <<>> THEN <<>>
    ELSE LET c == Head(str)
             e == IF c = "\"" \/ c = "\\" THEN <<"\\", c>> ELSE <<c>>
         IN  e \o EscapeDebug(Tail(str))

StrDebug(str) == <<"\"">> \o EscapeDebug(str) \o <<"\"">>

\* derive(Debug) of the nodes that reach the last arm of fmt.
NodeDebug(node) ==
    CASE node.tag = "Undefined" -> <<"Undefined", "(">> \o StrDebug(node.s) \o <<")">>
      [] node.tag = "Ampersand" -> <<"Ampersand">>
      [] node.tag = "NewLine" -> <<"NewLine">>

\* ------------------------------------------------ the arms of Node::fmt
\* Each arm takes the payload and the already rendered children.
Stroke == "&#x0338;"

FmtNumber(number) == <<"<mn>">> \o number \o <<"</mn>">>

\* FmtLetter writing the style attribute for every style.
FmtLetterStyled(letter, var) ==
    <<"<mi mathvariant=\"", VariantName(var), "\">">> \o letter \o <<"</mi>">>

FmtLetter(letter, var) ==
    IF var = "Italic"
    THEN <<"<mi>">> \o letter \o <<"</mi>">>
    ELSE <<"<mi mathvariant=\"", VariantName(var), "\">">> \o letter \o <<"</mi>">>

FmtOperator(op) == <<"<mo>">> \o op \o <<"</mo>">>

FmtFunction(fun, hasArg, arg) ==
    IF hasArg
    THEN <<"<mi>">> \o fun \o <<"</mi>", "<mo>", "&#x2061;", "</mo>">> \o arg
    ELSE <<"<mi>">> \o fun \o <<"</mi>">>

FmtSpace(space) == <<"<mspace width=\"">> \o FloatDisplay(space) \o <<"em\"/>">>

FmtSubscript(a, b) == <<"<msub>">> \o a \o b \o <<"</msub>">>

FmtSuperscript(a, b) == <<"<msup>">> \o a \o b \o <<"</msup>">>

FmtSubSup(target, sub, sup) == <<"<msubsup>">> \o target \o sub \o sup \o <<"</msubsup>">>

FmtOverOp(op, acc, target) ==
    <<"<mover>">> \o target \o <<"<mo accent=\"", AccentName(acc), "\">">> \o op
        \o <<"</mo>", "</mover>">>

FmtUnderOp(op, acc, target) ==
    <<"<munder>">> \o target \o <<"<mo accent=\"", AccentName(acc), "\">">> \o op
        \o <<"</mo>", "</munder>">>

FmtOverset(over, target) == <<"<mover>">> \o target \o over \o <<"</mover>">>

FmtUnderset(under, target) == <<"<munder>">> \o target \o under \o <<"</munder>">>

FmtUnder(target, under) == <<"<munder>">> \o target \o under \o <<"</munder>">>

FmtUnderOver(target, under, over) ==
    <<"<munderover>">> \o target \o under \o over \o <<"</munderover>">>

\* FmtSqrt with the children of <mroot> in reading order.
FmtSqrtDegreeFirst(hasDegree, deg, content) ==
    IF hasDegree
    THEN <<"<mroot>">> \o deg \o content \o <<"</mroot>">>
    ELSE <<"<msqrt>">> \o content \o <<"</msqrt>">>

FmtSqrt(hasDegree, deg, content) ==
    IF hasDegree
    THEN <<"<mroot>">> \o content \o deg \o <<"</mroot>">>
    ELSE <<"<msqrt>">> \o content \o <<"</msqrt>">>

FmtFrac(num, denom) == <<"<mfrac>">> \o num \o denom \o <<"</mfrac>">>

\* vec is the sequence of the rendered elements.
RECURSIVE Collect(_)
Collect(vec) == IF vec = <<>> THEN <<>> ELSE Head(vec) \o Collect(Tail(vec))

\* FmtRow joining the elements with a space.
RECURSIVE CollectSpaced(_)
CollectSpaced(vec) ==
    IF Len(vec) <= 1 THEN Collect(vec) ELSE Head(vec) \o <<" ">> \o CollectSpaced(Tail(vec))

FmtRowSpaced(vec) == <<"<mrow>">> \o CollectSpaced(vec) \o <<"</mrow>">>

FmtRow(vec) == <<"<mrow>">> \o Collect(vec) \o <<"</mrow>">>

FmtFenced(open, close, content) ==
    <<"<mrow>", "<mo stretchy=\"true\" form=\"prefix\">">> \o open \o <<"</mo>">> \o content
        \o <<"<mo stretchy=\"true\" form=\"postfix\">">> \o close \o <<"</mo>", "</mrow>">>

FmtOtherOperator(op) == <<"<mo>">> \o op \o <<"</mo>">>

\* FmtSlashed with the stroke before the glyph.
FmtSlashedStrokeFirst(node, n) ==
    CASE node.tag = "Letter" ->
            <<"<mi mathvariant=\"", VariantName(node.v), "\">", Stroke>> \o node.s \o <<"</mi>">>
      [] node.tag = "Operator" -> <<"<mo>", Stroke>> \o node.s \o <<"</mo>">>
      [] OTHER -> n

\* FmtSlashed striking whatever it wraps.
FmtSlashedStrokeAll(node, n) ==
    CASE node.tag = "Letter" ->
            <<"<mi mathvariant=\"", VariantName(node.v), "\">">> \o node.s \o <<Stroke, "</mi>">>
      [] node.tag = "Operator" -> <<"<mo>">> \o node.s \o <<Stroke, "</mo>">>
      [] OTHER -> n \o <<Stroke>>

\* FmtSlashed with an arm for OtherOperator as well.
FmtSlashedOtherOperator(node, n) ==
    CASE node.tag = "Letter" ->
            <<"<mi mathvariant=\"", VariantName(node.v), "\">">> \o node.s \o <<Stroke, "</mi>">>
      [] node.tag = "Operator" -> <<"<mo>">> \o node.s \o <<Stroke, "</mo>">>
      [] node.tag = "OtherOperator" -> <<"<mo>">> \o node.s \o <<Stroke, "</mo>">>
      [] OTHER -> n

\* node is the wrapped node, n its rendering (used by the last arm only).
FmtSlashed(node, n) ==
    CASE node.tag = "Letter" ->
            <<"<mi mathvariant=\"", VariantName(node.v), "\">">> \o node.s \o <<Stroke, "</mi>">>
      [] node.tag = "Operator" -> <<"<mo>">> \o node.s \o <<Stroke, "</mo>">>
      [] OTHER -> n

FmtText(text) == <<"<mtext>">> \o text \o <<"</mtext>">>

\* FmtFallback writing nothing for a node without an arm.
FmtFallbackSilent(node) == <<>>

FmtFallback(node) == <<"<mtext>", "[PARSE ERROR: ">> \o NodeDebug(node) \o <<"]", "</mtext>">>

\* ------------------------------------------------------- the Matrix arm
MatrixOpen == <<"<mtable>", "<mtr>", "<mtd>">>

MatrixClose == <<"</mtd>", "</mtr>", "</mtable>">>

\* MatrixGuard true of every index but the last.
MatrixGuardLast(i, len) == i + 1 < len

\* The guard of both sentinel arms; i is the 0-based index of enumerate().
MatrixGuard(i, len) == i < len

\* MatrixNewLine closing the row without closing its cell.
MatrixNewLineKeepCell(mathml, i, len) ==
    LET closed == mathml \o <<"</mtr>">>
    IN  IF MatrixGuard(i, len) THEN closed \o <<"<mtr>", "<mtd>">> ELSE closed

MatrixNewLine(mathml, i, len) ==
    LET closed == mathml \o <<"</mtd>", "</mtr>">>
    IN  IF MatrixGuard(i, len) THEN closed \o <<"<mtr>", "<mtd>">> ELSE closed

MatrixAmpersand(mathml, i, len) ==
    LET closed == mathml \o <<"</mtd>">>
    IN  IF MatrixGuard(i, len) THEN closed \o <<"<mtd>">> ELSE closed

MatrixCell(mathml, n) == mathml \o n

\* One iteration of the loop body: node is content[i], n its rendering.
MatrixElem(mathml, i, len, node, n) ==
    CASE node.tag = "NewLine" -> MatrixNewLine(mathml, i, len)
      [] node.tag = "Ampersand" -> MatrixAmpersand(mathml, i, len)
      [] OTHER -> MatrixCell(mathml, n)

\* --------------------------------------------------------- Node::fmt
RECURSIVE Render(_)
RECURSIVE RenderEach(_)
RECURSIVE MatrixFold(_, _)

\* The renderings of the elements of a sequence of nodes, in order.
RenderEach(vec) == IF vec = <<>> THEN <<>> ELSE <<Render(Head(vec))>> \o RenderEach(Tail(vec))

\* The buffer after the first k iterations of the Matrix loop.
MatrixFold(content, k) ==
    IF k = 0 THEN MatrixOpen
    ELSE MatrixElem(MatrixFold(content, k - 1), k - 1, Len(content), content[k],
                    IF content[k].tag \in {"NewLine", "Ampersand"} THEN <<>>
                    ELSE Render(content[k]))

Render(node) ==
    LET k == node.kids
        r(j) == Render(k[j])
    IN  CASE node.tag = "Number" -> FmtNumber(node.s)
          [] node.tag = "Letter" -> FmtLetter(node.s, node.v)
          [] node.tag = "Operator" -> FmtOperator(node.s)
          [] node.tag = "Function" ->
                FmtFunction(node.s, k # <<>>, IF k # <<>> THEN r(1) ELSE <<>>)
          [] node.tag = "Space" -> FmtSpace(node.w)
          [] node.tag = "Subscript" -> FmtSubscript(r(1), r(2))
          [] node.tag = "Superscript" -> FmtSuperscript(r(1), r(2))
          [] node.tag = "SubSup" -> FmtSubSup(r(1), r(2), r(3))
          [] node.tag = "OverOp" -> FmtOverOp(node.s, node.v, r(1))
          [] node.tag = "UnderOp" -> FmtUnderOp(node.s, node.v, r(1))
          [] node.tag = "Overset" -> FmtOverset(r(1), r(2))
          [] node.tag = "Underset" -> FmtUnderset(r(1), r(2))
          [] node.tag = "Under" -> FmtUnder(r(1), r(2))
          [] node.tag = "UnderOver" -> FmtUnderOver(r(1), r(2), r(3))
          [] node.tag = "Sqrt" ->
                IF Len(k) = 2 THEN FmtSqrt(TRUE, r(1), r(2)) ELSE FmtSqrt(FALSE, <<>>, r(1))
          [] node.tag = "Frac" -> FmtFrac(r(1), r(2))
          [] node.tag = "Row" -> FmtRow(RenderEach(k))
          [] node.tag = "Fenced" -> FmtFenced(node.s, node.s2, r(1))
          [] node.tag = "OtherOperator" -> FmtOtherOperator(node.s)
          [] node.tag = "Slashed" ->
                FmtSlashed(k[1], IF k[1].tag \in {"Letter", "Operator"} THEN <<>> ELSE r(1))
          [] node.tag = "Matrix" -> MatrixFold(k, Len(k)) \o MatrixClose
          [] node.tag = "Text" -> FmtText(node.s)
          [] OTHER -> FmtFallback(node)

\* ------------------------------------------------------------ the inputs
\* The payloads the trees are built from.
Pivot == Number(<<"1">>)

Leaves ==
    { Number(<<"1">>), Letter("x", "Italic"), Letter("x", "Normal"), Letter("x", "Bold"),
      Operator("="), Function(<<"sin">>, <<>>), Space(5), OtherOperator(<<"lim">>),
      Text(<<"a", " ", "b">>), Undefined(<<"a", "\"">>), Ampersand, NewLine }

\* More payloads, rendered on their own.
Payloads ==
    { Number(<<"4", "2">>), Space(10), Space(-3), Space(120), Undefined(<<"x">>),
      Undefined(<<"\\">>), Text(<<>>) }

\* Every composite variant around n, each sibling position filled by Pivot.
Wrap(n) ==
    << Function(<<"sin">>, <<n>>),
       Subscript(n, Pivot), Subscript(Pivot, n),
       Superscript(n, Pivot), Superscript(Pivot, n),
       SubSup(n, Pivot, Pivot), SubSup(Pivot, n, Pivot), SubSup(Pivot, Pivot, n),
       OverOp("^", "True", n), UnderOp("_", "False", n),
       Overset(n, Pivot), Overset(Pivot, n),
       Underset(n, Pivot), Underset(Pivot, n),
       Under(n, Pivot), Under(Pivot, n),
       UnderOver(n, Pivot, Pivot), UnderOver(Pivot, n, Pivot), UnderOver(Pivot, Pivot, n),
       Sqrt(<<>>, n), Sqrt(<<n>>, Pivot), Sqrt(<<Pivot>>, n),
       Frac(n, Pivot), Frac(Pivot, n),
       Row(<<n>>), Row(<<n, Pivot>>), Row(<<Pivot, n>>),
       Fenced(<<"(">>, <<")">>, n),
       Slashed(n),
       Matrix(<<n>>), Matrix(<<Pivot, Ampersand, n>>), Matrix(<<n, NewLine, Pivot>>) >>

\* The leaves, bare and slashed.
Base == Leaves \cup { Slashed(l) : l \in Leaves }

\* The choices of at most d nested composites, outermost first, each the
\* index of an element of Wrap.
Nestings(d) == UNION { [1..k -> 1..Len(Wrap(Pivot))] : k \in 0..d }

\* The node n under the nested composites cs.
RECURSIVE Nested(_, _)
Nested(cs, n) == IF cs = <<>> THEN n ELSE Wrap(Nested(Tail(cs), n))[Head(cs)]

\* The elements of the Row and Matrix sequences.
SeqElems ==
    { Number(<<"1">>), Undefined(<<"x">>), Ampersand, NewLine,
      Slashed(Letter("x", "Italic")), Matrix(<<Pivot, NewLine>>) }

\* A Row or a Matrix of vec, bare or slashed.
Sequenced(vec) == << Row(vec), Matrix(vec), Slashed(Row(vec)), Slashed(Matrix(vec)) >>

\* The trees of tests::node_display; "alpha" and "a_hiragana" stand for the
\* one-character payloads U+03B1 and U+3042.
TestProblems ==
    { Number(<<"3", ".", "1", "4">>), Letter("x", "Italic"), Letter("alpha", "Italic"),
      Letter("a_hiragana", "Normal"), Row(<<Operator("+"), Operator("-")>>) }

\* ------------------------------------------------------ the state machine
VARIABLES node, pc, i, mathml, out

vars == <<node, pc, i, mathml, out>>

\* node is the tree handed to format!("{}", node); nothing is written yet.
Init ==
    /\ \/ node \in TestProblems \cup Payloads
       \/ \E cs \in Nestings(MaxDepth), n \in Base : node = Nested(cs, n)
       \/ \E l \in 0..MaxLen : \E vec \in [1..l -> SeqElems], k \in 1..4 :
              node = Sequenced(vec)[k]
    /\ pc = "start"
    /\ i = 0
    /\ mathml = <<>>
    /\ out = <<>>

\* Every arm of fmt but the Matrix arm: one write!.
Fmt ==
    /\ pc = "start"
    /\ node.tag # "Matrix"
    /\ out' = Render(node)
    /\ pc' = "done"
    /\ UNCHANGED <<node, i, mathml>>

\* The Matrix arm: let mut mathml = "<mtable><mtr><mtd>".
MatrixBegin ==
    /\ pc = "start"
    /\ node.tag = "Matrix"
    /\ mathml' = MatrixOpen
    /\ i' = 0
    /\ pc' = "fold"
    /\ UNCHANGED <<node, out>>

\* One iteration of for (i, node) in content.iter().enumerate(); the state's
\* i counts the iterations done, so this one has the index i.
MatrixStep ==
    /\ pc = "fold"
    /\ i < Len(node.kids)
    /\ LET elem == node.kids[i + 1]
       IN  mathml' = MatrixElem(mathml, i, Len(node.kids), elem,
                                IF elem.tag \in {"NewLine", "Ampersand"} THEN <<>>
                                ELSE Render(elem))
    /\ i' = i + 1
    /\ UNCHANGED <<node, pc, out>>

\* After the loop: push_str("</mtd></mtr></mtable>") and write!.
MatrixEnd ==
    /\ pc = "fold"
    /\ i = Len(node.kids)
    /\ out' = mathml \o MatrixClose
    /\ pc' = "done"
    /\ UNCHANGED <<node, i, mathml>>

Next == Fmt \/ MatrixBegin \/ MatrixStep \/ MatrixEnd

Spec == Init /\ [][Next]_vars

\* The variables stay in their types.
TypeOK ==
    /\ pc \in {"start", "fold", "done"}
    /\ i \in 0..Len(node.kids)
    /\ pc = "done" => out = Render(node)

\* ------------------------------------------------- positions in a tree
\* The paths (sequences of child indices) to the nodes of a tree.
RECURSIVE Paths(_)
Paths(n) ==
    {<<>>} \cup UNION { { <<j>> \o q : q \in Paths(n.kids[j]) } : j \in 1..Len(n.kids) }

\* The node at path p.
RECURSIVE Sub(_, _)
Sub(n, p) == IF p = <<>> THEN n ELSE Sub(n.kids[Head(p)], Tail(p))

\* The tree with the node at path p replaced by m.
RECURSIVE Replace(_, _, _)
Replace(n, p, m) ==
    IF p = <<>> THEN m
    ELSE [n EXCEPT !.kids = [@ EXCEPT ![Head(p)] = Replace(@, Tail(p), m)]]

Front(p) == SubSeq(p, 1, Len(p) - 1)

\* A well-formed leaf whose payload occurs in no tree of Init.
Marker == Number(<<"#">>)

\* Where the token sequence r occurs in m.
Occurs(m, r) == { k \in 1..(Len(m) - Len(r) + 1) : SubSeq(m, k, k + Len(r) - 1) = r }

\* text is the rendering of the tree with the marker at p, except that
\* the marker's own rendering is replaced by frag: what surrounds the
\* position p is rendered as around any well-formed leaf.
InContext(text, tree, p, frag) ==
    LET m == Render(Replace(tree, p, Marker))
        r == Render(Marker)
        at == Occurs(m, r)
    IN  /\ Cardinality(at) = 1
        /\ LET k == CHOOSE x \in at : TRUE
           IN  text = SubSeq(m, 1, k - 1) \o frag \o SubSeq(m, k + Len(r), Len(m))

\* The number of tokens of text that are tok.
Count(text, tok) == Cardinality({ k \in 1..Len(text) : text[k] = tok })

\* text with the negation stroke put right before its closing tag.
WithStroke(text) == Front(text) \o <<Stroke>> \o <<text[Len(text)]>>

\* The renderings of the nodes vec[1..k], joined from the right.
RECURSIVE Joined(_, _)
Joined(vec, k) == IF k = 0 THEN <<>> ELSE Joined(vec, k - 1) \o Render(vec[k])

\* s is a subsequence of text.
RECURSIVE Mentions(_, _)
Mentions(text, s) ==
    IF s = <<>> THEN TRUE
    ELSE IF text = <<>> THEN FALSE
    ELSE IF Head(text) = Head(s) THEN Mentions(Tail(text), Tail(s))
    ELSE Mentions(Tail(text), s)

Done == pc = "done"

\* ------------------------------------------------------------ the claims

\* C6: Letter(c, Italic) renders as <mi>c</mi>, with no style attribute;
\* Letter(c, style) of any other style renders as
\* <mi mathvariant="NAME">c</mi>, NAME the style's name (Normal: normal).
C6_LetterStyle ==
    (Done /\ node.tag = "Letter") =>
        /\ node.v = "Italic" => out = <<"<mi>">> \o node.s \o <<"</mi>">>
        /\ node.v # "Italic" =>
              out = <<"<mi mathvariant=\"", VariantName(node.v), "\">">> \o node.s \o <<"</mi>">>
        /\ node.v = "Normal" => out[2] = "normal"
        /\ Len(node.s) = 1

C6_Witness == Done /\ node = Letter("a_hiragana", "Normal") /\ Len(out) = 5

\* C7: Row(xs) renders as <mrow>, the renderings of the elements of xs in
\* order with nothing between them, </mrow>; the wrapper is written once,
\* also around the empty sequence.
C7_Row ==
    (Done /\ node.tag = "Row") =>
        /\ out = <<"<mrow>">> \o Joined(node.kids, Len(node.kids)) \o <<"</mrow>">>
        /\ node.kids = <<>> => out = <<"<mrow>", "</mrow>">>
        /\ node.kids = <<Operator("+"), Operator("-")>> =>
              out = <<"<mrow>", "<mo>", "+", "</mo>", "<mo>", "-", "</mo>", "</mrow>">>

C7_Witness == Done /\ node.tag = "Row" /\ Len(node.kids) = 2 /\ node.kids[1] # node.kids[2]

\* C8: Sqrt without a degree renders as <msqrt>radicand</msqrt>; with a
\* degree it renders as <mroot>radicand degree</mroot>, the degree after the
\* radicand.
C8_Sqrt ==
    (Done /\ node.tag = "Sqrt") =>
        IF Len(node.kids) = 1
        THEN out = <<"<msqrt>">> \o Render(node.kids[1]) \o <<"</msqrt>">>
        ELSE out = <<"<mroot>">> \o Render(node.kids[2]) \o Render(node.kids[1])
                       \o <<"</mroot>">>

C8_Witness == Done /\ node.tag = "Sqrt" /\ Len(node.kids) = 2 /\ node.kids[1] # node.kids[2]

\* C9: Slashed(n), n of any variant but Letter and Operator, renders exactly
\* as n does: no stroke, no wrapper.
C9_SlashedFallback ==
    (Done /\ node.tag = "Slashed" /\ node.kids[1].tag \notin {"Letter", "Operator"}) =>
        /\ out = Render(node.kids[1])
        /\ Count(out, Stroke) = Count(Render(node.kids[1]), Stroke)

C9_Witness ==
    Done /\ node.tag = "Slashed" /\ node.kids[1].tag = "Slashed"
         /\ node.kids[1].kids[1].tag = "Letter"

\* C3 as stated: Slashed around a Letter of any style, or around an
\* Operator, renders as the wrapped node does on its own (same element, same
\* attributes), with only the stroke added right after the glyph.
C3_SameShape ==
    (Done /\ node.tag = "Slashed" /\ node.kids[1].tag \in {"Letter", "Operator"}) =>
        out = WithStroke(Render(node.kids[1]))

\* C3 as amended: Slashed around an Operator renders as <mo>c STROKE</mo>, and
\* around a Letter of any style as <mi mathvariant="NAME">c STROKE</mi>: the
\* style attribute is written for the default Italic style too.  So the
\* output is the plain rendering with only the stroke added after the glyph
\* for an Operator and for a Letter of a style other than Italic, and for an
\* Italic Letter it carries the attribute the plain rendering leaves out.
C3_SlashedShape ==
    (Done /\ node.tag = "Slashed" /\ node.kids[1].tag \in {"Letter", "Operator"}) =>
        LET inner == node.kids[1]
        IN  /\ inner.tag = "Operator" =>
                  /\ out = <<"<mo>">> \o inner.s \o <<Stroke, "</mo>">>
                  /\ out = WithStroke(Render(inner))
            /\ inner.tag = "Letter" =>
                  out = <<"<mi mathvariant=\"", VariantName(inner.v), "\">">> \o inner.s
                            \o <<Stroke, "</mi>">>
            /\ (inner.tag = "Letter" /\ inner.v # "Italic") => out = WithStroke(Render(inner))
            /\ (inner.tag = "Letter" /\ inner.v = "Italic") =>
                  /\ out # WithStroke(Render(inner))
                  /\ Render(inner) = <<"<mi>">> \o inner.s \o <<"</mi>">>
            /\ inner = Operator("=") => out = <<"<mo>", "=", Stroke, "</mo>">>

C3_Witness == Done /\ node = Slashed(Letter("x", "Italic")) /\ out[1] = "<mi mathvariant=\""

\* C4: Undefined(s) renders as the one element
\* <mtext>[PARSE ERROR: ...]</mtext> whose text mentions s; a tree with an
\* Undefined leaf anywhere in it is rendered to the end, and is the
\* rendering of the same tree with a well-formed leaf in that place, except
\* for the diagnostic element standing where that leaf's rendering stood.
C4_Diagnostic ==
    /\ (~Done) => ENABLED Next
    /\ (Done /\ node.tag = "Undefined") =>
          /\ Len(out) >= 4
          /\ SubSeq(out, 1, 2) = <<"<mtext>", "[PARSE ERROR: ">>
          /\ SubSeq(out, Len(out) - 1, Len(out)) = <<"]", "</mtext>">>
          /\ Count(out, "<mtext>") = 1 /\ Count(out, "</mtext>") = 1
          /\ Mentions(SubSeq(out, 3, Len(out) - 2), node.s)
    /\ Done =>
          \A p \in Paths(node) :
              Sub(node, p).tag = "Undefined" =>
                  InContext(out, node, p,
                            <<"<mtext>", "[PARSE ERROR: ", "Undefined", "(">>
                                \o StrDebug(Sub(node, p).s) \o <<")", "]", "</mtext>">>)

C4_Witness ==
    Done /\ node.tag = "Matrix" /\ Len(node.kids) = 3 /\ node.kids[1].tag = "Undefined"
         /\ node.kids[3].tag = "Slashed" /\ Count(out, "[PARSE ERROR: ") = 1

\* The leaf variants: Number, Letter, Operator, Space, Function without an
\* argument, OtherOperator, Text.
IsLeaf(n) ==
    \/ n.tag \in {"Number", "Letter", "Operator", "Space", "OtherOperator", "Text"}
    \/ n.tag = "Function" /\ n.kids = <<>>

\* C5 as stated: a leaf at any position of a tree, under any parent,
\* contributes exactly its own rendering to the rendering of the tree.
C5_AnyParent ==
    Done => \A p \in Paths(node) :
                IsLeaf(Sub(node, p)) => InContext(out, node, p, Render(Sub(node, p)))

\* The leaf at p is a Letter or an Operator directly wrapped by Slashed.
Struck(tree, p) ==
    /\ p # <<>>
    /\ Sub(tree, Front(p)).tag = "Slashed"
    /\ Sub(tree, p).tag \in {"Letter", "Operator"}

\* C5 as amended: a leaf at any position of a tree contributes exactly its
\* own rendering to the rendering of the tree, unless it is a Letter or an
\* Operator that is the direct child of a Slashed node; there the Slashed
\* node writes the leaf's element itself, with the stroke after the glyph.
C5_LeafInContext ==
    Done => \A p \in Paths(node) :
                IsLeaf(Sub(node, p)) =>
                    IF Struck(node, p)
                    THEN InContext(out, node, Front(p), Render(Sub(node, Front(p))))
                         /\ Count(Render(Sub(node, Front(p))), Stroke) = 1
                    ELSE InContext(out, node, p, Render(Sub(node, p)))

C5_Witness ==
    Done /\ node.tag = "Frac" /\ node.kids[1].tag = "Slashed"
         /\ node.kids[1].kids[1].tag = "OtherOperator"

\* ------------------------------------------------- reading table markup
\* The table elements left open after the tokens text[k..], read with the
\* elements in stack open: <mtr> directly in <mtable>, <mtd> directly in
\* <mtr>, <mtable> not directly in either, and every closing tag closing the
\* innermost open element.  <<"!">> when a tag breaks this.
RECURSIVE OpenAfter(_, _, _)
OpenAfter(text, k, stack) ==
    IF k > Len(text) THEN stack
    ELSE LET tok == text[k]
             top == IF stack = <<>> THEN "" ELSE stack[Len(stack)]
             name == CASE tok \in {"<mtable>", "</mtable>"} -> "mtable"
                       [] tok \in {"<mtr>", "</mtr>"} -> "mtr"
                       [] tok \in {"<mtd>", "</mtd>"} -> "mtd"
                       [] OTHER -> ""
             fits == CASE tok = "<mtable>" -> top \notin {"mtable", "mtr"}
                       [] tok = "<mtr>" -> top = "mtable"
                       [] tok = "<mtd>" -> top = "mtr"
                       [] OTHER -> top = name
         IN  IF name = "" THEN OpenAfter(text, k + 1, stack)
             ELSE IF ~fits THEN <<"!">>
             ELSE IF tok \in {"<mtable>", "<mtr>", "<mtd>"}
                  THEN OpenAfter(text, k + 1, Append(stack, name))
                  ELSE OpenAfter(text, k + 1, Front(stack))

OpenTags(text) == OpenAfter(text, 1, <<>>)

\* For each <mtr> of the outermost table of text[k..], in order, the number
\* of its <mtd> elements; depth counts the tables open, rows the rows read.
RECURSIVE RowsAfter(_, _, _, _)
RowsAfter(text, k, depth, rows) ==
    IF k > Len(text) THEN rows
    ELSE LET tok == text[k]
         IN  CASE tok = "<mtable>" -> RowsAfter(text, k + 1, depth + 1, rows)
               [] tok = "</mtable>" -> RowsAfter(text, k + 1, depth - 1, rows)
               [] tok = "<mtr>" /\ depth = 1 -> RowsAfter(text, k + 1, depth, Append(rows, 0))
               [] tok = "<mtd>" /\ depth = 1 /\ rows # <<>> ->
                     RowsAfter(text, k + 1, depth,
                               [rows EXCEPT ![Len(rows)] = @ + 1])
               [] OTHER -> RowsAfter(text, k + 1, depth, rows)

RowCells(text) == RowsAfter(text, 1, 0, <<>>)

\* The positions of the sentinels of a Matrix sequence, and the number of
\* Ampersands of its k-th NewLine-delimited segment.
NewLines(content) == { j \in 1..Len(content) : content[j].tag = "NewLine" }

Ampersands(content) == { j \in 1..Len(content) : content[j].tag = "Ampersand" }

SegmentOf(content, j) == 1 + Cardinality({ n \in NewLines(content) : n < j })

AmpersandsIn(content, k) ==
    Cardinality({ j \in Ampersands(content) : SegmentOf(content, j) = k })

\* The Matrix sequence ends in a sentinel.
EndsInSentinel(content) ==
    content # <<>> /\ content[Len(content)].tag \in {"NewLine", "Ampersand"}

\* C1 as stated: the NewLine or Ampersand that is the last element of a
\* Matrix sequence closes the open cell (and row) and opens nothing, so the
\* output has no empty <mtr> or <mtd> after the last sentinel.
C1_NoDanglingCell ==
    /\ (pc = "fold" /\ i = Len(node.kids) /\ EndsInSentinel(node.kids)) =>
          mathml[Len(mathml)] \notin {"<mtr>", "<mtd>"}
    /\ (Done /\ node.tag = "Matrix" /\ EndsInSentinel(node.kids)) =>
          SubSeq(out, Len(out) - 3, Len(out)) # <<"<mtd>", "</mtd>", "</mtr>", "</mtable>">>

\* C2: a Matrix renders as a table of (number of NewLines) + 1 <mtr>
\* elements, the k-th holding (number of Ampersands of the k-th
\* NewLine-delimited segment) + 1 <mtd> elements; with no sentinel it is one
\* row of one cell holding the renderings of all elements, and sentinels in
\* a row give empty cells and rows.
C2_RowsAndCells ==
    (Done /\ node.tag = "Matrix") =>
        LET content == node.kids
        IN  /\ RowCells(out) =
                  [k \in 1..(Cardinality(NewLines(content)) + 1) |->
                      AmpersandsIn(content, k) + 1]
            /\ Count(out, "<mtable>") >= 1
            /\ (NewLines(content) \cup Ampersands(content) = {}) =>
                  out = <<"<mtable>", "<mtr>", "<mtd>">> \o Joined(content, Len(content))
                            \o <<"</mtd>", "</mtr>", "</mtable>">>
            /\ content = <<Ampersand, Ampersand>> =>
                  out = <<"<mtable>", "<mtr>", "<mtd>", "</mtd>", "<mtd>", "</mtd>", "<mtd>",
                          "</mtd>", "</mtr>", "</mtable>">>

C2_Witness ==
    Done /\ node.tag = "Matrix" /\ Len(node.kids) = 3 /\ node.kids[1].tag = "Ampersand"
         /\ node.kids[2].tag = "NewLine" /\ node.kids[3].tag = "NewLine"
         /\ RowCells(out) = <<2, 1, 1>>

\* C10: after every prefix of the Matrix loop the buffer has the table, one
\* <mtr> in it and one <mtd> in that <mtr> open and nothing else of a table,
\* so the closing </mtd></mtr></mtable> closes open elements: the table tags
\* of every rendering are balanced and properly nested.
C10_OneCellOpen ==
    /\ pc = "fold" => OpenTags(mathml) = <<"mtable", "mtr", "mtd">>
    /\ Done => OpenTags(out) = <<>>

C10_Witness ==
    pc = "fold" /\ i = Len(node.kids) /\ i = 3 /\ node.kids[3].tag = "NewLine"
        /\ node.kids[2].tag = "Ampersand"

====
